---- MODULE Spec2Model ----
\* Model of find_differential_primers.py: the primer records kept per
\* GenomeData object, the filter chain that sets their flags, the
\* cross-amplification step (classify_primers) and the classification
\* queries used by write_report. The runs modelled are those of __main__
\* without --noclassify, with the external tools (ePrimer3, BLAST,
\* PrimerSearch, ClusterTree) giving any result within the bounds.
EXTENDS Integers, Sequences, FiniteSets, TLC

VARIABLES
    options,             \* the parsed command line (module global `options`)
    gdlist,              \* list of GenomeData objects: name and families
    primerfiles,         \* environment: the primers each ePrimer3 file holds
    directory,           \* environment: *.primersearch files already on disk
    primers,             \* gd.primers of every GenomeData object
    primersearch_output, \* gd.primersearch_output of every GenomeData object
    cur,                 \* classify_primers: position of its two loops
    psdata,              \* classify_primers: the PrimerSearch data last read
    report,              \* write_report: the primer sets it computed
    pc,                  \* position of the script
    err,                 \* the exception that ended the run, if any
    failing,             \* environment: the external jobs that end non-zero
    completed,           \* multiprocessing_run: the exit statuses received
    pool,                \* multiprocessing.Pool: the jobs not yet ended
    config_script,       \* build_config_file.py: its options, files and position
    classify_cmd         \* subcmd_classify: its collection, outputs and position

\* The state of find_differential_primers.py.
fdp_vars == <<options, gdlist, primerfiles, directory, primers,
              primersearch_output, cur, psdata, report, pc, err, failing, completed,
              pool>>

vars == <<fdp_vars, config_script, classify_cmd>>

-----------------------------------------------------------------------------
\* Bounds of the model.

\* Largest number of amplimers PrimerSearch reports for one primer.
MaxProducts == 2

\* Largest number of primers in one ePrimer3 file.
MaxPrimers == 1

-----------------------------------------------------------------------------
\* Values.

\* A primer without the ad hoc attribute negative_control_amplimers.
NoAttr == -1

\* GenomeData.families when the config column is '-'.
NoFamilies == <<>>

\* Sample names, as the sequence of their characters.
NameA == <<"A">>
NameB == <<"B">>
NameC == <<"C">>
NameAB == <<"A", "B">>

NamePool == {NameA, NameB, NameC, NameAB}

\* A sample name that holds the separator of the output file names, as
\* "B_vs_A".
NameBvsA == <<"B", "_vs_", "A">>

\* A sample name that holds the separator of the primer names, as
\* "A_primer_B".
NameAprimerB == <<"A", "_primer_", "B">>

\* The basename, without extension, of a PrimerSearch output file, as a
\* sequence of tokens: the characters of the names and the separators.
PairStem(q, t) == q \o <<"_vs_">> \o t
NegativeStem(q) == q \o <<"_negative_control">>

\* Name given to the k-th primer of a GenomeData object by load_primers.
PrimerName(gdname, k) == [gd |-> gdname, n |-> k]

-----------------------------------------------------------------------------
\* String helpers.

RECURSIVE CountBase(_, _)
CountBase(s, b) ==
    IF s = <<>> THEN 0
    ELSE (IF Head(s) = b THEN 1 ELSE 0) + CountBase(Tail(s), b)

\* s[-5:]
Last5(s) == IF Len(s) <= 5 THEN s ELSE SubSeq(s, Len(s) - 4, Len(s))

\* s[1:-1]
Interior(s) == IF Len(s) <= 2 THEN <<>> ELSE SubSeq(s, 2, Len(s) - 1)

\* s.count('CC'): non-overlapping occurrences, scanning left to right
RECURSIVE CountCC(_)
CountCC(s) ==
    IF Len(s) < 2 THEN 0
    ELSE IF s[1] = "C" /\ s[2] = "C" THEN 1 + CountCC(Tail(Tail(s)))
    ELSE CountCC(Tail(s))

StartsWith(s, prefix) ==
    /\ Len(prefix) <= Len(s)
    /\ SubSeq(s, 1, Len(prefix)) = prefix

\* stem.split('_vs_')[-1]
TargetName(stem) ==
    LET I == {i \in 1..Len(stem) : stem[i] = "_vs_"}
        last == IF I = {} THEN 0 ELSE CHOOSE i \in I : \A j \in I : j <= i
    IN  SubSeq(stem, last + 1, Len(stem))

\* 'negative_control' in filename
IsNegativeControl(stem) == \E i \in 1..Len(stem) : stem[i] = "_negative_control"

\* The sample whose primers were the query of the PrimerSearch run that wrote
\* the file: the part of the stem before its first separator.
Producer(stem) ==
    LET I == {i \in 1..Len(stem) : stem[i] \in {"_vs_", "_negative_control"}}
        first == IF I = {} THEN Len(stem) + 1
                 ELSE CHOOSE i \in I : \A j \in I : i <= j
    IN  SubSeq(stem, 1, first - 1)

\* All orderings of a finite set, as sequences without repetition.
Orderings(S) ==
    {s \in [1..Cardinality(S) -> S] : \A i, j \in DOMAIN s : i /= j => s[i] /= s[j]}

-----------------------------------------------------------------------------
\* The collection.

N == Len(gdlist)

\* gddict of classify_primers and parse_blast: the names of the collection
GdNames == {gdlist[i].name : i \in 1..N}

\* gddict[name], as the set of the indices it stands for: setdefault keeps
\* the first object of a name, and a name that is no key has none.
GdIndex(name) ==
    {i \in 1..N : gdlist[i].name = name /\ \A j \in 1..i - 1 : gdlist[j].name /= name}

\* Every target name taken as known.
KnownTarget_any(targetname) == TRUE

\* targetname in gddict
KnownTarget(targetname) == targetname \in GdNames

\* families[family] of write_report: the names of the members of a family.
\* Only evaluated when no GenomeData object has families None.
FamilyMembers(family) ==
    {gdlist[i].name : i \in {j \in 1..N : \E k \in 1..Len(gdlist[j].families) :
                                              gdlist[j].families[k] = family}}

FamiliesOf(i) == {gdlist[i].families[k] : k \in 1..Len(gdlist[i].families)}

\* gddict[targetname].families, as a set
TargetFamilies(targetname) == UNION {FamiliesOf(i) : i \in GdIndex(targetname)}

-----------------------------------------------------------------------------
\* load_primers and the filters it applies.

\* The attributes load_primers gives a primer read from an ePrimer3 file.
\* negative_control_amplimers is not among them.
NewPrimer(design) ==
    [forward_seq |-> design.forward_seq,
     reverse_seq |-> design.reverse_seq,
     oligo |-> design.oligo,
     cds_overlap |-> FALSE,
     amplifies_organism |-> {},
     amplifies_family |-> {},
     gc3primevalid |-> TRUE,
     oligovalid |-> TRUE,
     blastpass |-> TRUE,
     negative_control_amplimers |-> NoAttr]

\* gd.primers after the loading loop: primer k is named <name>_primer_<k>
LoadedPrimers(i) ==
    [p \in {PrimerName(gdlist[i].name, k) : k \in 1..Len(primerfiles[i])} |->
        NewPrimer(primerfiles[i][p.n])]

\* filter_primers: every primer id found in a region of the cluster tree
\* gets cds_overlap True. A region is given by whether it holds a CDS
\* feature (id -1) and by the primers it holds.
filter_primers(P, regions) ==
    LET overlap_primer_ids == UNION {r.primers : r \in regions}
    IN  [p \in DOMAIN P |->
            IF p \in overlap_primer_ids THEN [P[p] EXCEPT !.cds_overlap = TRUE]
            ELSE P[p]]

\* The condition under which filter_primers_gc_3prime fails a primer.
Gc3PrimeFails(primer) ==
    LET fseq == Last5(primer.forward_seq)
        rseq == Last5(primer.reverse_seq)
    IN  \/ CountBase(fseq, "C") + CountBase(fseq, "G") > 2
        \/ CountBase(rseq, "C") + CountBase(fseq, "G") > 2

\* filter_primers_gc_3prime switching the flag of the primers that fail.
filter_primers_gc_3prime_switch(P) ==
    [p \in DOMAIN P |->
        IF Gc3PrimeFails(P[p]) THEN [P[p] EXCEPT !.gc3primevalid = ~@]
        ELSE P[p]]

filter_primers_gc_3prime(P) ==
    [p \in DOMAIN P |->
        IF Gc3PrimeFails(P[p]) THEN [P[p] EXCEPT !.gc3primevalid = FALSE]
        ELSE P[p]]

\* filter_primers_oligo raises on a primer whose oligo it cannot read: no
\* oligo at all (the empty sequence here, AttributeError) or a one-base
\* oligo other than G (IndexError on seq[1]).
OligoRaises(primer) ==
    \/ Len(primer.oligo) = 0
    \/ Len(primer.oligo) = 1 /\ primer.oligo[1] /= "G"

\* The condition of filter_primers_oligo with CC counted over the whole oligo.
OligoFails_whole(primer) ==
    LET seq == primer.oligo
    IN  \/ seq[1] = "G"
        \/ seq[Len(seq)] = "G"
        \/ CountCC(seq) > 1
        \/ seq[2] = "G"

\* The condition under which filter_primers_oligo fails a primer.
OligoFails(primer) ==
    LET seq == primer.oligo
    IN  \/ seq[1] = "G"
        \/ seq[Len(seq)] = "G"
        \/ CountCC(Interior(seq)) > 1
        \/ seq[2] = "G"

filter_primers_oligo(P) ==
    [p \in DOMAIN P |->
        IF OligoFails(P[p]) THEN [P[p] EXCEPT !.oligovalid = FALSE]
        ELSE P[p]]

\* The regions a ClusterTree(-minlength, 2) can report for a set of primer
\* ids: every region holds at least two intervals, and regions are disjoint.
RegionPool(ids) ==
    {r \in [cds : BOOLEAN, primers : SUBSET ids] :
        /\ r.primers /= {}
        /\ r.cds \/ Cardinality(r.primers) >= 2}

RegionSets(ids) ==
    {R \in SUBSET RegionPool(ids) :
        \A r1, r2 \in R : r1 /= r2 => r1.primers \cap r2.primers = {}}

-----------------------------------------------------------------------------
\* The classification queries of GenomeData.

\* The filter chain logging the count after the BLAST filter before the
\* count after the oligo filter.
FilterChain_blast_first(P, base, cds_overlap, oligovalid, blastfilter) ==
    LET l1 == IF cds_overlap THEN {p \in base : P[p].cds_overlap} ELSE base
        g1 == IF cds_overlap THEN <<Cardinality(l1)>> ELSE <<>>
        s1 == IF cds_overlap THEN <<"CDS">> ELSE <<>>
        l2 == IF options.filtergc3prime THEN {p \in l1 : P[p].gc3primevalid} ELSE l1
        g2 == IF options.filtergc3prime THEN <<Cardinality(l2)>> ELSE <<>>
        s2 == IF options.filtergc3prime THEN <<"GC3">> ELSE <<>>
        l3 == IF oligovalid THEN {p \in l2 : P[p].oligovalid} ELSE l2
        g3 == IF oligovalid THEN <<Cardinality(l3)>> ELSE <<>>
        s3 == IF oligovalid THEN <<"oligo">> ELSE <<>>
        l4 == IF blastfilter THEN {p \in l3 : P[p].blastpass} ELSE l3
        g4 == IF blastfilter THEN <<Cardinality(l4)>> ELSE <<>>
        s4 == IF blastfilter THEN <<"BLAST">> ELSE <<>>
        raises == options.single_product /\
                  \E p \in l4 : P[p].negative_control_amplimers = NoAttr
        l5 == IF options.single_product
              THEN {p \in l4 : P[p].negative_control_amplimers = 1} ELSE l4
        g5 == IF options.single_product THEN <<Cardinality(l5)>> ELSE <<>>
        s5 == IF options.single_product THEN <<"single_product">> ELSE <<>>
    IN  IF raises
        THEN [raised |-> TRUE, primers |-> {},
              log |-> <<Cardinality(base)>> \o g1 \o g2 \o g4 \o g3,
              steps |-> <<"amplify">> \o s1 \o s2 \o s4 \o s3]
        ELSE [raised |-> FALSE, primers |-> l5,
              log |-> <<Cardinality(base)>> \o g1 \o g2 \o g4 \o g3 \o g5
                      \o <<Cardinality(l5)>>,
              steps |-> <<"amplify">> \o s1 \o s2 \o s4 \o s3 \o s5
                        \o <<"returning">>]

\* The filter chain shared by get_primers_amplify_count and
\* get_family_unique_primers, applied to the primers `base` of P in the
\* order of the code. `log` lists the count logged after each step and
\* `steps` the step each count is logged for. The
\* single_product comprehension reads negative_control_amplimers of every
\* primer still in the list, and raises AttributeError when one has none.
FilterChain(P, base, cds_overlap, oligovalid, blastfilter) ==
    LET l1 == IF cds_overlap THEN {p \in base : P[p].cds_overlap} ELSE base
        g1 == IF cds_overlap THEN <<Cardinality(l1)>> ELSE <<>>
        s1 == IF cds_overlap THEN <<"CDS">> ELSE <<>>
        l2 == IF options.filtergc3prime THEN {p \in l1 : P[p].gc3primevalid} ELSE l1
        g2 == IF options.filtergc3prime THEN <<Cardinality(l2)>> ELSE <<>>
        s2 == IF options.filtergc3prime THEN <<"GC3">> ELSE <<>>
        l3 == IF oligovalid THEN {p \in l2 : P[p].oligovalid} ELSE l2
        g3 == IF oligovalid THEN <<Cardinality(l3)>> ELSE <<>>
        s3 == IF oligovalid THEN <<"oligo">> ELSE <<>>
        l4 == IF blastfilter THEN {p \in l3 : P[p].blastpass} ELSE l3
        g4 == IF blastfilter THEN <<Cardinality(l4)>> ELSE <<>>
        s4 == IF blastfilter THEN <<"BLAST">> ELSE <<>>
        raises == options.single_product /\
                  \E p \in l4 : P[p].negative_control_amplimers = NoAttr
        l5 == IF options.single_product
              THEN {p \in l4 : P[p].negative_control_amplimers = 1} ELSE l4
        g5 == IF options.single_product THEN <<Cardinality(l5)>> ELSE <<>>
        s5 == IF options.single_product THEN <<"single_product">> ELSE <<>>
    IN  IF raises
        THEN [raised |-> TRUE, primers |-> {},
              log |-> <<Cardinality(base)>> \o g1 \o g2 \o g3 \o g4,
              steps |-> <<"amplify">> \o s1 \o s2 \o s3 \o s4]
        ELSE [raised |-> FALSE, primers |-> l5,
              log |-> <<Cardinality(base)>> \o g1 \o g2 \o g3 \o g4 \o g5
                      \o <<Cardinality(l5)>>,
              steps |-> <<"amplify">> \o s1 \o s2 \o s3 \o s4 \o s5
                        \o <<"returning">>]

\* get_primers_amplify_count without its CDS filter.
get_primers_amplify_count_nocds(P, count, cds_overlap, oligovalid, blastfilter) ==
    FilterChain(P, {p \in DOMAIN P : count = Cardinality(P[p].amplifies_organism)},
                FALSE, oligovalid, blastfilter)

get_primers_amplify_count(P, count, cds_overlap, oligovalid, blastfilter) ==
    FilterChain(P, {p \in DOMAIN P : count = Cardinality(P[p].amplifies_organism)},
                cds_overlap, oligovalid, blastfilter)

\* get_unique_primers asking for one amplified organism.
get_unique_primers_one(P, cds_overlap, oligovalid, blastfilter) ==
    FilterChain(P, {p \in DOMAIN P : Cardinality(P[p].amplifies_organism) = 1},
                cds_overlap, oligovalid, blastfilter)

get_unique_primers(P, cds_overlap, oligovalid, blastfilter) ==
    get_primers_amplify_count(P, 0, cds_overlap, oligovalid, blastfilter)

get_family_unique_primers(P, name, family_members, cds_overlap, oligovalid, blastfilter) ==
    FilterChain(P, {p \in DOMAIN P :
                       family_members = {name} \cup P[p].amplifies_organism},
                cds_overlap, oligovalid, blastfilter)

\* process_blastxml keeping the queries with more than 90% identities only.
process_blastxml_above(records) ==
    {q.name : q \in {r \in DOMAIN records :
                        /\ records[r].alignments > 0
                        /\ 10 * records[r].identities > 9 * records[r].query_letters}}

\* process_blastxml: the primers with a query whose first alignment covers
\* at least 90% of the query with identities. records maps each query
\* (primer name and strand) to the BLAST record of that query.
process_blastxml(records) ==
    {q.name : q \in {r \in DOMAIN records :
                        /\ records[r].alignments > 0
                        /\ 10 * records[r].identities >= 9 * records[r].query_letters}}

\* name.split('_primer_')[0] for the name load_primers gave a primer,
\* "<sample name>_primer_<number>": the part of the sample name before its
\* first "_primer_", or all of it.
SampleOfPrimer(name) ==
    LET I == {i \in 1..Len(name.gd) : name.gd[i] = "_primer_"}
        first == IF I = {} THEN Len(name.gd) + 1
                 ELSE CHOOSE i \in I : \A j \in I : i <= j
    IN  SubSeq(name.gd, 1, first - 1)

\* gddict[name.split('_primer_')[0]].primers[name] raises KeyError: no
\* sample has the name found, or the sample found has no such primer.
BlastLookupFails(name) ==
    \A j \in GdIndex(SampleOfPrimer(name)) : name \notin DOMAIN primers[j]

\* The loop of parse_blast over one result set: blastpass of every named
\* primer becomes False.
parse_blast(P, matching_primers) ==
    [p \in DOMAIN P |->
        IF p \in matching_primers THEN [P[p] EXCEPT !.blastpass = FALSE]
        ELSE P[p]]

\* The queries build_blast_input writes for a GenomeData object.
BlastQueries(P) == [name : DOMAIN P, strand : {"forward", "reverse"}]

\* BLAST records of one query: no alignment, or a first alignment with the
\* given identities over a query of the given length.
BlastRecordPool ==
    {[alignments |-> 0, identities |-> 0, query_letters |-> 10],
     [alignments |-> 1, identities |-> 9, query_letters |-> 10],
     [alignments |-> 1, identities |-> 8, query_letters |-> 10]}

-----------------------------------------------------------------------------
\* PrimerSearch output.

\* primersearch: the output files registered for query i, in gdlist order
primersearch_files(i) ==
    LET targets == SelectSeq([j \in 1..N |-> j], LAMBDA j : j /= i)
    IN  [k \in 1..Len(targets) |->
            PairStem(gdlist[i].name, gdlist[targets[k]].name)]

\* load_existing_primersearch_results: the files of the directory whose
\* name starts with the name of GenomeData object i
existing_files(i) == {f \in directory : StartsWith(f, gdlist[i].name)}

\* GenomeData.write_primers: the names of the primers written to the
\* PrimerSearch input file of a sample, one line for each primer of the
\* table.
write_primers(P) == DOMAIN P

\* The amplifiers a PrimerSearch output file can hold: amplimer counts for
\* some of the primers of the sample that was the query of the run.
\* When a name holds a separator the stem can be read in several ways:
\* the query is any sample of the collection whose name, followed by a
\* separator, starts the stem; a sample outside the collection when there
\* is none.
Producers(stem) ==
    {SubSeq(stem, 1, i - 1) :
        i \in {k \in 1..Len(stem) : stem[k] \in {"_vs_", "_negative_control"}}}

ProducerPrimers(stem) ==
    IF Producers(stem) \cap GdNames /= {}
    THEN UNION {write_primers(primers[i]) :
                  i \in UNION {GdIndex(name) : name \in Producers(stem) \cap GdNames}}
    ELSE {PrimerName(Producer(stem), 1)}

PsDataFor(stem) ==
    UNION {[K -> 0..MaxProducts] : K \in SUBSET ProducerPrimers(stem)}

\* The position of the next file in the loops of classify_primers after
\* position (i, k); gd is N + 1 when there is none.
RECURSIVE NextFile(_, _, _)
NextFile(out, i, k) ==
    IF i > N THEN [gd |-> N + 1, file |-> 0]
    ELSE IF k < Len(out[i]) THEN [gd |-> i, file |-> k + 1]
    ELSE NextFile(out, i + 1, 0)

-----------------------------------------------------------------------------
\* The script.

NoPrimers == [p \in {} |-> 0]
NoData == [p \in {} |-> 0]
NoReport == [written |-> FALSE]

Abort(exception) ==
    /\ pc' = "aborted"
    /\ err' = exception

\* The command line that runs `tool` and writes the output file `out`.
Job(tool, out) == [tool |-> tool, out |-> out]

\* multiprocessing_run up to pool.close(): every command line of clines is
\* handed to a worker of the pool by apply_async.
multiprocessing_run(clines) ==
    pool' = clines

\* The worker of parse_blast that parses the BLAST output of GenomeData
\* object j.
BlastxmlJob(j) == Job("process_blastxml", j)

\* pool.join() returns when no job is left with the workers of the pool p.
join_nowait(p) ==
    TRUE
join(p) ==
    p = {}

\* The step of __main__ that follows load_primers.
AfterLoad ==
    IF options.blastdb /\ ~options.useblast THEN "run_blast" ELSE "primersearch"

\* The step of __main__ that follows the PrimerSearch step, given the
\* output files it registered. classify_primers has nothing to do when no
\* file is registered.
AfterSearch(out) ==
    IF options.single_product THEN "single_product"
    ELSE IF NextFile(out, 1, 0).gd <= N THEN "classify"
    ELSE "report"

\* load_primers, one pass of its loop: the primers of GenomeData object
\* cur.gd are read and the filters the options ask for are applied.
load_primers ==
    /\ pc = "load_primers"
    /\ LET i == cur.gd
           P0 == LoadedPrimers(i)
       IN  \E regions \in (IF options.nocds THEN {{}} ELSE RegionSets(DOMAIN P0)) :
             LET P1 == IF ~options.nocds THEN filter_primers(P0, regions) ELSE P0
                 P2 == IF options.filtergc3prime THEN filter_primers_gc_3prime(P1)
                       ELSE P1
             IN  IF options.hybridprobe /\ \E p \in DOMAIN P2 : OligoRaises(P2[p])
                 THEN /\ Abort("AttributeError: oligo")
                      /\ primers' = [primers EXCEPT ![i] = P2]
                      /\ cur' = cur
                 ELSE /\ primers' = [primers EXCEPT ![i] =
                             IF options.hybridprobe THEN filter_primers_oligo(P2)
                             ELSE P2]
                      /\ IF i < N
                         THEN /\ cur' = [gd |-> i + 1, file |-> 0]
                              /\ pc' = pc
                         ELSE /\ cur' = [gd |-> 1, file |-> 0]
                              /\ pc' = AfterLoad
                      /\ err' = err
    /\ UNCHANGED <<options, gdlist, primerfiles, directory,
                   primersearch_output, psdata, report, failing, completed,
                   pool, config_script, classify_cmd>>

\* run_blast: one BLASTN job per GenomeData object is handed to the pool
\* of multiprocessing_run, which then waits in pool.join().
run_blast ==
    /\ pc = "run_blast"
    /\ multiprocessing_run({Job("blastn", gdlist[j].name) : j \in 1..N})
    /\ pc' = "run_blast_join"
    /\ UNCHANGED <<options, gdlist, primerfiles, directory, primers,
                   primersearch_output, cur, psdata, report, err, failing,
                   completed, config_script, classify_cmd>>

\* A worker of the pool ends its job. The exit status of a command line
\* reaches the callback, which keeps or logs it; nothing else reads it. The
\* list a process_blastxml worker returns stays with its result object.
pool_worker ==
    /\ \E c \in pool :
         /\ pool' = pool \ {c}
         /\ completed' = IF c.tool = "process_blastxml" THEN completed
                         ELSE completed \cup {IF c \in failing THEN 1 ELSE 0}
    /\ UNCHANGED <<options, gdlist, primerfiles, directory, primers,
                   primersearch_output, cur, psdata, report, pc, err, failing,
                   config_script, classify_cmd>>

\* pool.join() returns to the step that waits in it: multiprocessing_run
\* returns to run_blast, after which parse_blast hands one process_blastxml
\* job per GenomeData object to its own pool, or to primersearch; the join
\* of parse_blast is followed by its loop over the results.
pool_join ==
    /\ pc \in {"run_blast_join", "parse_blast_join", "primersearch_join"}
    /\ join(pool)
    /\ IF pc = "run_blast_join"
       THEN /\ pool' = pool \cup {BlastxmlJob(j) : j \in 1..N}
            /\ pc' = "parse_blast_join"
       ELSE /\ pool' = pool
            /\ pc' = IF pc = "parse_blast_join" THEN "blast_screen"
                     ELSE AfterSearch(primersearch_output)
    /\ UNCHANGED <<options, gdlist, primerfiles, directory, primers,
                   primersearch_output, cur, psdata, report, err, failing,
                   completed, config_script, classify_cmd>>

\* blast_screen, for GenomeData object cur.gd: the loop of parse_blast
\* over the results of its workers. process_blastxml has read the BLAST
\* output of the object and parse_blast fails the primers it returned.
blast_screen ==
    /\ pc = "blast_screen"
    /\ LET i == cur.gd
       IN  \E records \in [BlastQueries(primers[i]) -> BlastRecordPool] :
             LET matching_primers == process_blastxml(records)
             IN  IF \E name \in matching_primers : BlastLookupFails(name)
                 THEN /\ Abort("KeyError: parse_blast")
                      /\ UNCHANGED <<primers, cur>>
                 ELSE /\ primers' = [primers EXCEPT ![i] =
                                        parse_blast(primers[i], matching_primers)]
                      /\ IF i < N
                         THEN /\ cur' = [gd |-> i + 1, file |-> 0]
                              /\ pc' = pc
                         ELSE /\ cur' = [gd |-> 1, file |-> 0]
                              /\ pc' = "primersearch"
                      /\ err' = err
    /\ UNCHANGED <<options, gdlist, primerfiles, directory,
                   primersearch_output, psdata, report, failing, completed,
                   pool, config_script, classify_cmd>>

\* primersearch: every query registers one output file per other object
\* and the PrimerSearch jobs are handed to the pool of multiprocessing_run,
\* which then waits in pool.join().
primersearch ==
    /\ pc = "primersearch"
    /\ ~options.noprimersearch
    /\ primersearch_output' = [i \in 1..N |-> primersearch_files(i)]
    /\ multiprocessing_run({Job("primersearch", primersearch_files(i)[k]) :
                               i \in 1..N, k \in 1..N - 1})
    /\ pc' = "primersearch_join"
    /\ cur' = [gd |-> 1, file |-> 0]
    /\ UNCHANGED <<options, gdlist, primerfiles, directory, primers, psdata,
                   report, err, failing, completed,
                   config_script, classify_cmd>>

\* load_existing_primersearch_results: every object registers the files of
\* the directory that start with its name, in the order os.listdir gives.
load_existing_primersearch_results ==
    /\ pc = "primersearch"
    /\ options.noprimersearch
    /\ \E out \in {f \in [1..N -> UNION {Orderings(existing_files(i)) : i \in 1..N}] :
                      \A i \in 1..N : f[i] \in Orderings(existing_files(i))} :
         /\ primersearch_output' = out
         /\ pc' = AfterSearch(out)
    /\ cur' = [gd |-> 1, file |-> 0]
    /\ UNCHANGED <<options, gdlist, primerfiles, directory, primers, psdata,
                   report, err, failing, completed,
                   pool, config_script, classify_cmd>>

\* The call of find_negative_target_products in __main__ passes three
\* arguments to a function of five: TypeError.
find_negative_target_products ==
    /\ pc = "single_product"
    /\ Abort("TypeError: find_negative_target_products")
    /\ UNCHANGED <<options, gdlist, primerfiles, directory, primers,
                   primersearch_output, cur, psdata, report, failing, completed,
                   pool, config_script, classify_cmd>>

\* AddAmplified adding the name of the target and no family.
AddAmplified_organism(P, amplifying, targetname) ==
    [p \in DOMAIN P |->
        IF p \in amplifying
        THEN [P[p] EXCEPT !.amplifies_organism = @ \cup {targetname}]
        ELSE P[p]]

\* AddAmplified marking every primer, amplifying or not.
AddAmplified_all(P, amplifying, targetname) ==
    [p \in DOMAIN P |->
        [P[p] EXCEPT !.amplifies_organism = @ \cup {targetname},
                     !.amplifies_family = @ \cup TargetFamilies(targetname)]]

\* classify_primers, known target: every primer reported with at least one
\* amplimer gets the target's name and the target's families.
AddAmplified(P, amplifying, targetname) ==
    [p \in DOMAIN P |->
        IF p \in amplifying
        THEN [P[p] EXCEPT !.amplifies_organism = @ \cup {targetname},
                          !.amplifies_family = @ \cup TargetFamilies(targetname)]
        ELSE P[p]]

\* SetNegativeControl recording whether a primer has products, not how
\* many.
SetNegativeControl_any(P, data) ==
    [p \in DOMAIN P |->
        IF p \in DOMAIN data
        THEN [P[p] EXCEPT !.negative_control_amplimers =
                              IF data[p] > 0 THEN 1 ELSE 0]
        ELSE P[p]]

\* SetNegativeControl adding the number of amplimers to the count kept.
SetNegativeControl_add(P, data) ==
    [p \in DOMAIN P |->
        IF p \in DOMAIN data
        THEN [P[p] EXCEPT !.negative_control_amplimers = @ + data[p]]
        ELSE P[p]]

\* classify_primers, negative control: every reported primer gets its
\* number of amplimers.
SetNegativeControl(P, data) ==
    [p \in DOMAIN P |->
        IF p \in DOMAIN data
        THEN [P[p] EXCEPT !.negative_control_amplimers = data[p]]
        ELSE P[p]]

\* classify_primers, one pass of its inner loop: the next registered file
\* is processed.
\* The file was to be written by a PrimerSearch job of this run that ended
\* non-zero: it may not be there when classify_primers opens it.
MayBeMissing(stem) ==
    /\ ~options.noprimersearch
    /\ Job("primersearch", stem) \in failing

classify_primers ==
    /\ pc = "classify"
    /\ LET pos == NextFile(primersearch_output, cur.gd, cur.file)
           i == pos.gd
           stem == primersearch_output[i][pos.file]
           targetname == TargetName(stem)
           more == NextFile(primersearch_output, pos.gd, pos.file).gd <= N
           Continue == /\ pc' = IF more THEN "classify" ELSE "report"
                       /\ err' = err
       IN  /\ cur' = pos
           /\ IF KnownTarget(targetname)
              THEN \/ /\ MayBeMissing(stem)
                      /\ Abort("IOError: primersearch output")
                      /\ UNCHANGED <<psdata, primers>>
                   \/ \E data \in PsDataFor(stem) :
                        LET amplifying == {p \in DOMAIN data : data[p] > 0}
                        IN  /\ psdata' = data
                            /\ IF \E p \in amplifying : p \notin DOMAIN primers[i]
                               THEN /\ Abort("KeyError: primers")
                                    /\ primers' = primers
                               ELSE IF /\ amplifying /= {}
                                       /\ \E j \in GdIndex(targetname) :
                                             gdlist[j].families = NoFamilies
                               THEN /\ Abort("TypeError: families")
                                    /\ \E first \in amplifying :
                                         primers' = [primers EXCEPT ![i][first].amplifies_organism =
                                                        @ \cup {targetname}]
                               ELSE /\ primers' = [primers EXCEPT ![i] =
                                           AddAmplified(primers[i], amplifying, targetname)]
                                    /\ Continue
              ELSE IF IsNegativeControl(stem)
              THEN \E data \in PsDataFor(stem) :
                     /\ psdata' = data
                     /\ IF \E p \in DOMAIN data : p \notin DOMAIN primers[i]
                        THEN /\ Abort("KeyError: primers")
                             /\ primers' = primers
                        ELSE /\ primers' = [primers EXCEPT ![i] =
                                    SetNegativeControl(primers[i], data)]
                             /\ Continue
              ELSE /\ UNCHANGED <<psdata, primers>>
                   /\ Continue
    /\ UNCHANGED <<options, gdlist, primerfiles, directory,
                   primersearch_output, report, failing, completed,
                   pool, config_script, classify_cmd>>

\* classify_primers on one result file of GenomeData object i, as a
\* function of the object's primers and of the PrimerSearch data the file
\* holds: the primers afterwards, and whether an exception was raised.
ClassifyFile(P, stem, data) ==
    LET targetname == TargetName(stem)
        amplifying == {p \in DOMAIN data : data[p] > 0}
    IN  IF KnownTarget(targetname)
        THEN IF \E p \in amplifying : p \notin DOMAIN P
             THEN [primers |-> P, raised |-> TRUE]
             ELSE IF /\ amplifying /= {}
                     /\ \E j \in GdIndex(targetname) : gdlist[j].families = NoFamilies
             THEN [primers |-> P, raised |-> TRUE]
             ELSE [primers |-> AddAmplified(P, amplifying, targetname),
                   raised |-> FALSE]
        ELSE IF IsNegativeControl(stem)
        THEN IF \E p \in DOMAIN data : p \notin DOMAIN P
             THEN [primers |-> P, raised |-> TRUE]
             ELSE [primers |-> SetNegativeControl(P, data), raised |-> FALSE]
        ELSE [primers |-> P, raised |-> FALSE]

\* The files classify_primers goes through, in the order of its two loops,
\* from the position after (i, k) on.
RECURSIVE FilesFrom(_, _, _)
FilesFrom(out, i, k) ==
    LET pos == NextFile(out, i, k)
    IN  IF pos.gd > N THEN <<>>
        ELSE <<pos>> \o FilesFrom(out, pos.gd, pos.file)

\* classify_primers as a whole, on the files `files` holding the data
\* `datas` (one per file): the primers of every object afterwards; raised
\* when an exception ended the loops.
RECURSIVE ClassifyPass(_, _, _, _)
ClassifyPass(P, out, files, datas) ==
    IF files = <<>> THEN [primers |-> P, raised |-> FALSE]
    ELSE LET i == Head(files).gd
             r == ClassifyFile(P[i], out[i][Head(files).file], Head(datas))
         IN  IF r.raised THEN [primers |-> P, raised |-> TRUE]
             ELSE ClassifyPass([P EXCEPT ![i] = r.primers], out,
                               Tail(files), Tail(datas))

\* The data the files `files` can hold, one per file.
RECURSIVE DataChoices(_, _)
DataChoices(out, files) ==
    IF files = <<>> THEN {<<>>}
    ELSE LET stem == out[Head(files).gd][Head(files).file]
             read == KnownTarget(TargetName(stem)) \/ IsNegativeControl(stem)
         IN  {<<d>> \o rest : d \in (IF read THEN PsDataFor(stem) ELSE {NoData}),
                              rest \in DataChoices(out, Tail(files))}

\* The filter arguments write_report passes to the three queries:
\* (cds_overlap, blastfilter) are bound, by position, to the parameters
\* (cds_overlap, oligovalid); the parameter blastfilter keeps its default.
ReportCdsOverlap == ~options.nocds
ReportBlastFilter == options.blastdb \/ options.useblast

report_unique(i) ==
    get_unique_primers(primers[i], ReportCdsOverlap, ReportBlastFilter, FALSE)

report_family_unique(i, family) ==
    get_family_unique_primers(primers[i], gdlist[i].name, FamilyMembers(family),
                              ReportCdsOverlap, ReportBlastFilter, FALSE)

\* other_org_count counting the sample itself.
other_org_count_all == N

\* other_org_count = len(gdlist) - 1
other_org_count == N - 1

\* report_universal asking for primers that amplify no other organism
\* but one.
report_universal_one(i) ==
    get_primers_amplify_count(primers[i], 1,
                              ReportCdsOverlap, ReportBlastFilter, FALSE)

report_universal(i) ==
    get_primers_amplify_count(primers[i], other_org_count,
                              ReportCdsOverlap, ReportBlastFilter, FALSE)

\* write_report: the unique, family-unique and universal primers of every
\* GenomeData object, and the primer sets written to the export files.
write_report ==
    /\ pc = "report"
    /\ IF \E i \in 1..N : gdlist[i].families = NoFamilies
       THEN /\ Abort("TypeError: families")
            /\ report' = report
       ELSE IF \E i \in 1..N :
                  \/ report_unique(i).raised
                  \/ report_universal(i).raised
                  \/ \E f \in FamiliesOf(i) : report_family_unique(i, f).raised
       THEN /\ Abort("AttributeError: negative_control_amplimers")
            /\ report' = report
       ELSE /\ report' =
                 [written |-> TRUE,
                  unique |-> [i \in 1..N |-> report_unique(i).primers],
                  family_unique |->
                      [i \in 1..N |-> [f \in FamiliesOf(i) |->
                                          report_family_unique(i, f).primers]],
                  universal |-> [i \in 1..N |-> report_universal(i).primers],
                  all_universal_primers |->
                      UNION {report_universal(i).primers : i \in 1..N},
                  universal_file |-> report_universal(N).primers,
                  family_specific_primers |->
                      [f \in UNION {FamiliesOf(i) : i \in 1..N} |->
                          UNION {report_family_unique(i, f).primers :
                                    i \in {j \in 1..N : f \in FamiliesOf(j)}}]]
            /\ pc' = "done"
            /\ err' = err
    /\ UNCHANGED <<options, gdlist, primerfiles, directory, primers,
                   primersearch_output, cur, psdata, failing, completed,
                   pool, config_script, classify_cmd>>

Next ==
    \/ load_primers
    \/ run_blast
    \/ pool_worker
    \/ pool_join
    \/ blast_screen
    \/ primersearch
    \/ load_existing_primersearch_results
    \/ find_negative_target_products
    \/ classify_primers
    \/ write_report

-----------------------------------------------------------------------------
\* Inputs: the command line, the configuration file, the ePrimer3 files and
\* the PrimerSearch files left on disk by earlier runs.

OptionNames ==
    {"nocds", "filtergc3prime", "hybridprobe", "blastdb", "useblast",
     "noprimersearch", "single_product"}

\* The options with exactly the flags of `set` given on the command line.
OptionsWith(set) == [o \in OptionNames |-> o \in set]

AllOptions == {OptionsWith(set) : set \in SUBSET OptionNames}

FewOptions ==
    {OptionsWith({}),
     OptionsWith({"noprimersearch"}),
     OptionsWith({"noprimersearch", "nocds", "filtergc3prime"}),
     OptionsWith({"blastdb", "filtergc3prime"}),
     OptionsWith({"nocds", "hybridprobe"}),
     OptionsWith({"single_product"})}

Gd(name, families) == [name |-> name, families |-> families]

FamilyPool == {NoFamilies, <<"F1">>, <<"F2">>, <<"F1", "F2">>}

\* Every list of GenomeData objects with the names of `names`, a sequence,
\* and families taken from `families`.
GdListsOver(names, families) ==
    {[i \in 1..Len(names) |-> Gd(names[i], f[i])] :
        f \in [1..Len(names) -> families]}

DesignGood ==
    [forward_seq |-> <<"G", "C", "A", "T", "A", "T", "A">>,
     reverse_seq |-> <<"A", "T", "T", "A", "C">>,
     oligo |-> <<"A", "T", "C", "C", "A">>]

DesignBadGc ==
    [forward_seq |-> <<"A", "G", "C", "G", "A", "T">>,
     reverse_seq |-> <<"A", "T", "T", "A", "C">>,
     oligo |-> <<"A", "T", "C", "C", "A">>]

DesignBadOligo ==
    [forward_seq |-> <<"G", "C", "A", "T", "A", "T", "A">>,
     reverse_seq |-> <<"A", "T", "T", "A", "C">>,
     oligo |-> <<"G", "A", "T", "C", "A">>]

DesignPool == {DesignGood, DesignBadGc, DesignBadOligo}

\* A reverse primer whose 3' end is G-rich, with a forward primer whose end
\* has no G and no C.
DesignBadGcReverse ==
    [forward_seq |-> <<"G", "C", "A", "T", "A", "T", "A">>,
     reverse_seq |-> <<"A", "G", "G", "G", "A">>,
     oligo |-> <<"A", "T", "C", "C", "A">>]

\* Two G at the forward 3' end and one C at the reverse 3' end.
DesignSplitGc ==
    [forward_seq |-> <<"T", "A", "G", "G", "A", "T">>,
     reverse_seq |-> <<"A", "T", "T", "A", "C">>,
     oligo |-> <<"A", "T", "C", "C", "A">>]

\* DesignGood with the given internal oligo.
DesignWithOligo(oligo) == [DesignGood EXCEPT !.oligo = oligo]

\* Oligos ending in G, with G as second base, with CC twice in the
\* interior, with CC once at the start and once in the interior; no oligo.
OligoPool ==
    {<<"A", "T", "C", "A", "G">>,
     <<"A", "G", "T", "C", "A">>,
     <<"A", "C", "C", "T", "C", "C", "A">>,
     <<"C", "C", "A", "T", "C", "C", "A">>,
     <<>>}

FilterDesignPool ==
    DesignPool \cup {DesignBadGcReverse, DesignSplitGc}
        \cup {DesignWithOligo(oligo) : oligo \in OligoPool}

SeqsUpTo(S, n) == UNION {[1..k -> S] : k \in 0..n}

\* The ePrimer3 files: at most MaxPrimers primers per file, of the given
\* designs, and none for the objects outside `owners`.
PrimerFilesOver(gl, designs, owners) ==
    {f \in [1..Len(gl) -> SeqsUpTo(designs, MaxPrimers)] :
        \A i \in 1..Len(gl) : i \notin owners => f[i] = <<>>}

\* The PrimerSearch files earlier runs over samples of NamePool can have
\* left: one per ordered pair of distinct samples, and negative controls.
PossibleFiles ==
    {PairStem(qt[1], qt[2]) : qt \in {x \in NamePool \X NamePool : x[1] /= x[2]}}
        \cup {NegativeStem(q) : q \in NamePool}

\* The directories holding some of `files`, each of them found by some
\* object of gl.
DirectoriesOver(gl, files) ==
    SUBSET {f \in files : \E i \in 1..Len(gl) : StartsWith(f, gl[i].name)}

\* A script that is not run.
NotRun == [pc |-> "not run"]

InitJobs(OptPool, GdPool, Designs, Owners, Files, Failing) ==
    /\ options \in OptPool
    /\ gdlist \in GdPool
    /\ primerfiles \in PrimerFilesOver(gdlist, Designs, Owners)
    /\ directory \in (IF options.noprimersearch
                      THEN DirectoriesOver(gdlist, Files) ELSE {{}})
    /\ primers = [i \in 1..Len(gdlist) |-> NoPrimers]
    /\ primersearch_output = [i \in 1..Len(gdlist) |-> <<>>]
    /\ cur = [gd |-> 1, file |-> 0]
    /\ psdata = NoData
    /\ report = NoReport
    /\ pc = "load_primers"
    /\ err = "none"
    /\ failing \in Failing
    /\ completed = {}
    /\ pool = {}
    /\ config_script = NotRun
    /\ classify_cmd = NotRun

\* The runs in which every external job ends with status 0.
InitWith(OptPool, GdPool, Designs, Owners, Files) ==
    InitJobs(OptPool, GdPool, Designs, Owners, Files, {{}})

\* Two samples with or without families, or the three samples A and B of
\* family F1 and C of family F2; primers in the first object; files of
\* earlier runs with targets inside and outside the collection.
Init ==
    InitWith(FewOptions,
             GdListsOver(<<NameA, NameB>>, {NoFamilies, <<"F1">>, <<"F1", "F2">>})
                 \cup {<<Gd(NameA, <<"F1">>), Gd(NameB, <<"F1">>), Gd(NameC, <<"F2">>)>>},
             {DesignGood}, {1},
             {PairStem(NameA, NameB), PairStem(NameA, NameC),
              PairStem(NameB, NameA), NegativeStem(NameA)})

Spec == Init /\ [][Next]_vars

\* Every combination of options, over one sample and over a pair of samples.
InitToggles ==
    InitWith(AllOptions,
             {<<Gd(NameA, <<"F1">>)>>, <<Gd(NameA, <<"F1">>), Gd(NameB, <<"F1">>)>>},
             DesignPool, {1},
             {PairStem(NameA, NameB)})

SpecToggles == InitToggles /\ [][Next]_vars

\* Collections of one to three samples: every family assignment for one
\* and two samples, a single family each for three.
InitFamilies ==
    InitWith(FewOptions,
             GdListsOver(<<NameA>>, FamilyPool)
                 \cup GdListsOver(<<NameA, NameB>>, FamilyPool)
                 \cup GdListsOver(<<NameA, NameB, NameC>>, {<<"F1">>, <<"F2">>}),
             {DesignGood}, {1},
             {PairStem(NameA, NameB), PairStem(NameA, NameC)})

SpecFamilies == InitFamilies /\ [][Next]_vars

\* Two samples of one family, or of two families with one shared; primers
\* in the first object; a pairwise and a negative-control result of
\* earlier runs.
InitRerun ==
    InitWith(FewOptions,
             {<<Gd(NameA, <<"F1">>), Gd(NameB, <<"F1">>)>>,
              <<Gd(NameA, <<"F1">>), Gd(NameB, <<"F1", "F2">>)>>},
             {DesignGood}, {1},
             {PairStem(NameA, NameB), NegativeStem(NameA)})

SpecRerun == InitRerun /\ [][Next]_vars

\* Runs over two samples, in one collection the name of the first being
\* the start of the name of the second, with result files of both on disk.
InitPrefix ==
    InitWith(FewOptions,
             {<<Gd(NameA, <<"F1">>), Gd(NameAB, <<"F1">>)>>,
              <<Gd(NameA, <<"F1">>), Gd(NameB, <<"F2">>)>>},
             {DesignGood}, {1},
             {PairStem(NameA, NameAB), PairStem(NameAB, NameA),
              PairStem(NameA, NameB), PairStem(NameB, NameA)})

SpecPrefix == InitPrefix /\ [][Next]_vars

\* Two samples, the name of the second with or without the separator of
\* the output file names in it, or the name of the first with the separator
\* of the primer names in it; primers in the first object.
InitNames ==
    InitWith(FewOptions,
             {<<Gd(NameA, <<"F1">>), Gd(NameB, <<"F1">>)>>,
              <<Gd(NameA, <<"F1">>), Gd(NameBvsA, <<"F1">>)>>,
              <<Gd(NameA, <<"F1">>), Gd(NameBvsA, <<"F2">>)>>,
              <<Gd(NameAprimerB, <<"F1">>), Gd(NameB, <<"F1">>)>>},
             {DesignGood}, {1},
             {PairStem(NameA, NameB), PairStem(NameA, NameBvsA)})

SpecNames == InitNames /\ [][Next]_vars

\* Two samples of one family; any of the BLAST and PrimerSearch jobs of
\* the run may end non-zero.
InitFailing ==
    InitJobs(FewOptions,
             {<<Gd(NameA, <<"F1">>), Gd(NameB, <<"F1">>)>>},
             {DesignGood}, {1},
             {PairStem(NameA, NameB)},
             SUBSET {Job("blastn", NameA),
                     Job("primersearch", PairStem(NameA, NameB)),
                     Job("primersearch", PairStem(NameB, NameA))})

SpecFailing == InitFailing /\ [][Next]_vars

\* Two samples of one family, the first with two primer pairs: the regions
\* of the cluster tree may hold a CDS and primers, or primers only.
InitRegions ==
    /\ options \in FewOptions
    /\ gdlist = <<Gd(NameA, <<"F1">>), Gd(NameB, <<"F1">>)>>
    /\ primerfiles \in {<<<<DesignGood, d>>, <<>>>> : d \in {DesignGood, DesignBadGc}}
    /\ directory \in (IF options.noprimersearch
                      THEN DirectoriesOver(gdlist, {PairStem(NameA, NameB)}) ELSE {{}})
    /\ primers = [i \in 1..Len(gdlist) |-> NoPrimers]
    /\ primersearch_output = [i \in 1..Len(gdlist) |-> <<>>]
    /\ cur = [gd |-> 1, file |-> 0]
    /\ psdata = NoData
    /\ report = NoReport
    /\ pc = "load_primers"
    /\ err = "none"
    /\ failing = {}
    /\ completed = {}
    /\ pool = {}
    /\ config_script = NotRun
    /\ classify_cmd = NotRun

SpecRegions == InitRegions /\ [][Next]_vars

FilterOptions ==
    {OptionsWith({}),
     OptionsWith({"filtergc3prime"}),
     OptionsWith({"hybridprobe"}),
     OptionsWith({"nocds", "filtergc3prime", "hybridprobe"}),
     OptionsWith({"blastdb", "hybridprobe"}),
     OptionsWith({"noprimersearch", "filtergc3prime"}),
     OptionsWith({"single_product", "hybridprobe"})}

\* Two samples of one family; primers of every design in the first object.
InitFilters ==
    InitWith(FilterOptions,
             {<<Gd(NameA, <<"F1">>), Gd(NameB, <<"F1">>)>>},
             FilterDesignPool, {1},
             {PairStem(NameA, NameB)})

SpecFilters == InitFilters /\ [][Next]_vars

-----------------------------------------------------------------------------
\* build_config_file.py: the script that writes a configuration file for
\* the FASTA files of a directory.

MaxFiles == 3

\* File names of the input directory, as sequences of tokens: the parts
\* of the name and its dots.
FileNamePool ==
    {<<"a", ".", "fasta">>, <<"b", ".", "fas">>, <<"a", ".", "fa">>,
     <<"c", ".", "d", ".", "fna">>, <<"e", ".", "txt">>, <<".", "fa">>, <<"f">>}

\* os.path.splitext: the name is split at its last dot; dots that begin the
\* name do not start an extension.
splitext(f) ==
    LET dots == {i \in 1..Len(f) : f[i] = "."}
        last == IF dots = {} THEN 0 ELSE CHOOSE i \in dots : \A j \in dots : j <= i
    IN  IF last = 0 \/ \A j \in 1..last - 1 : f[j] = "."
        THEN [root |-> f, ext |-> <<>>]
        ELSE [root |-> SubSeq(f, 1, last - 1), ext |-> SubSeq(f, last, Len(f))]

\* The extensions get_fasta_files asks for.
FastaExtensions ==
    {<<".", "fasta">>, <<".", "fas">>, <<".", "fa">>, <<".", "fna">>}

\* get_input_files keeping every file of the directory.
get_input_files_all(dir, ext) == dir

\* get_input_files: the files of the directory with one of the extensions.
get_input_files(dir, ext) == {f \in dir : splitext(f).ext \in ext}

\* The line write_config_file writes for a FASTA file.
ConfigLine(filename) ==
    LET fstem == splitext(filename).root
    IN  [name |-> fstem, families |-> fstem, seqfilename |-> filename,
         ftfilename |-> "-", primerfilename |-> "-", primersearchfilename |-> "-"]

NoFile == [exists |-> FALSE, lines |-> <<>>]

\* A file written before the run.
OldFile == [exists |-> TRUE, lines |-> <<"old">>]

\* sys.exit(1)
ConfigExit ==
    config_script' = [config_script EXCEPT !.pc = "exited", !.status = 1]

\* __main__: the script ends when no input directory or no output file is
\* named; otherwise get_fasta_files lists the FASTA files of the input
\* directory, in the order os.listdir gives.
get_fasta_files ==
    /\ config_script.pc = "get_fasta_files"
    /\ IF ~config_script.options.indirname \/ ~config_script.options.outfilename
       THEN ConfigExit
       ELSE \E infiles \in Orderings(get_input_files(config_script.indir, FastaExtensions)) :
              config_script' = [config_script EXCEPT !.fasta_files = infiles,
                                                     !.pc = "isfile"]
    /\ UNCHANGED <<fdp_vars, classify_cmd>>

\* __main__: an output file that exists is removed with --force, and ends
\* the script without it.
remove_outfile ==
    /\ config_script.pc = "isfile"
    /\ IF config_script.outfile.exists
       THEN IF config_script.options.force
            THEN config_script' = [config_script EXCEPT !.outfile = NoFile,
                                                        !.pc = "write_config_file"]
            ELSE ConfigExit
       ELSE config_script' = [config_script EXCEPT !.pc = "write_config_file"]
    /\ UNCHANGED <<fdp_vars, classify_cmd>>

\* write_config_file: one line for each file of fasta_files.
write_config_file ==
    /\ config_script.pc = "write_config_file"
    /\ config_script' =
           [config_script EXCEPT
               !.outfile = [exists |-> TRUE,
                            lines |-> [k \in 1..Len(config_script.fasta_files) |->
                                          ConfigLine(config_script.fasta_files[k])]],
               !.pc = "done",
               !.status = 0]
    /\ UNCHANGED <<fdp_vars, classify_cmd>>

NextConfig ==
    \/ get_fasta_files
    \/ remove_outfile
    \/ write_config_file

\* find_differential_primers.py is not run.
FdpNotRun ==
    /\ options = OptionsWith({})
    /\ gdlist = <<>>
    /\ primerfiles = <<>>
    /\ directory = {}
    /\ primers = <<>>
    /\ primersearch_output = <<>>
    /\ cur = [gd |-> 1, file |-> 0]
    /\ psdata = NoData
    /\ report = NoReport
    /\ pc = "not run"
    /\ err = "none"
    /\ failing = {}
    /\ completed = {}
    /\ pool = {}

\* Every command line, an input directory of at most MaxFiles files, and
\* an output file that exists or not.
InitConfig ==
    /\ FdpNotRun
    /\ classify_cmd = NotRun
    /\ \E opts \in [indirname : BOOLEAN, outfilename : BOOLEAN, force : BOOLEAN],
          indir \in {d \in SUBSET FileNamePool : Cardinality(d) <= MaxFiles},
          outfile \in {NoFile, OldFile} :
         config_script = [options |-> opts, indir |-> indir, outfile |-> outfile,
                          existed |-> outfile.exists, fasta_files |-> <<>>,
                          pc |-> "get_fasta_files", status |-> NoAttr]

SpecConfig == InitConfig /\ [][NextConfig]_vars

-----------------------------------------------------------------------------
\* subcmd_classify: the classify subcommand of pdp. The collection is what
\* load_config_json returns; the amplicon sets, the classification and the
\* writers are those of the modules it imports.

MaxGenomes == 2

GroupPool == {<<>>, <<"g1">>, <<"g2">>, <<"g1", "g2">>, <<"g2", "g1">>}

\* A genome of the collection: its name, its groups, and whether it has a
\* link to primersearch data (genome.primersearch is not None).
GenomePool(name) == [name : {name}, groups : GroupPool, primersearch : BOOLEAN]

\* The collections of at most MaxGenomes genomes, named in order.
Collections ==
    LET names == <<"G1", "G2", "G3">>
    IN  UNION {{coll \in [1..n -> UNION {GenomePool(names[k]) : k \in 1..n}] :
                   \A k \in 1..n : coll[k].name = names[k]} : n \in 0..MaxGenomes}

\* The test of subcmd_classify made on the first genome only.
no_primersearch_first(coll) == Len(coll) > 0 /\ ~coll[1].primersearch

\* None in [genome.primersearch for genome in coll.data]
no_primersearch(coll) == \E k \in 1..Len(coll) : ~coll[k].primersearch

\* The position of the next (genome, group) pair in the loops that write
\* the amplicons, after position (i, k); genome is Len(coll) + 1 when
\* there is none.
RECURSIVE NextGroup(_, _, _)
NextGroup(coll, i, k) ==
    IF i > Len(coll) THEN [genome |-> Len(coll) + 1, group |-> 0]
    ELSE IF k < Len(coll[i].groups) THEN [genome |-> i, group |-> k + 1]
    ELSE NextGroup(coll, i + 1, 0)

\* A file of the output directory: "<genome>_<group>_amplicons" with an
\* extension, results.json or summary.tab.
AmpliconFile(genome, group, ext) == [stem |-> <<genome, group, "amplicons">>, ext |-> ext]
ResultsFile == [stem |-> <<"results">>, ext |-> "json"]
SummaryFile == [stem |-> <<"summary">>, ext |-> "tab"]

\* The collection is loaded and tested: a genome with no link to
\* primersearch data ends the command with SystemExit(1).
load_config_json ==
    /\ classify_cmd.pc = "load_config_json"
    /\ IF no_primersearch(classify_cmd.coll)
       THEN classify_cmd' = [classify_cmd EXCEPT !.pc = "exited", !.status = 1]
       ELSE classify_cmd' = [classify_cmd EXCEPT
                !.pc = IF Len(classify_cmd.coll) = 0 THEN "classify" ELSE "from_json",
                !.cur = [genome |-> 1, group |-> 0]]
    /\ UNCHANGED <<fdp_vars, config_script>>

\* One pass of the loop that loads the amplicons of every dataset.
from_json ==
    /\ classify_cmd.pc = "from_json"
    /\ LET i == classify_cmd.cur.genome
       IN  classify_cmd' = [classify_cmd EXCEPT
               !.amplicons = @ \cup {classify_cmd.coll[i].name},
               !.cur = [genome |-> IF i < Len(classify_cmd.coll) THEN i + 1 ELSE 1,
                        group |-> 0],
               !.pc = IF i < Len(classify_cmd.coll) THEN "from_json" ELSE "classify"]
    /\ UNCHANGED <<fdp_vars, config_script>>

\* classify.classify_primers is called on the collection.
classify_collection ==
    /\ classify_cmd.pc = "classify"
    /\ classify_cmd' = [classify_cmd EXCEPT
           !.results = TRUE,
           !.cur = [genome |-> 1, group |-> 0],
           !.pc = IF NextGroup(classify_cmd.coll, 1, 0).genome <= Len(classify_cmd.coll)
                  THEN "write_json" ELSE "write_results"]
    /\ UNCHANGED <<fdp_vars, config_script>>

\* One pass of the loops over the genomes and their groups: the .bed and
\* the .json file of the pair are written.
write_json ==
    /\ classify_cmd.pc = "write_json"
    /\ LET coll == classify_cmd.coll
           pos == NextGroup(coll, classify_cmd.cur.genome, classify_cmd.cur.group)
           genome == coll[pos.genome]
           group == genome.groups[pos.group]
       IN  classify_cmd' = [classify_cmd EXCEPT
               !.written = @ \o <<AmpliconFile(genome.name, group, "bed"),
                                  AmpliconFile(genome.name, group, "json")>>,
               !.cur = pos,
               !.pc = IF NextGroup(coll, pos.genome, pos.group).genome <= Len(coll)
                      THEN "write_json" ELSE "write_results"]
    /\ UNCHANGED <<fdp_vars, config_script>>

\* classify.write_results writes results.json, then summary.tab, and the
\* command returns 0.
write_results ==
    /\ classify_cmd.pc = "write_results"
    /\ classify_cmd' = [classify_cmd EXCEPT
           !.written = @ \o <<ResultsFile, SummaryFile>>,
           !.pc = "done",
           !.status = 0]
    /\ UNCHANGED <<fdp_vars, config_script>>

NextClassify ==
    \/ load_config_json
    \/ from_json
    \/ classify_collection
    \/ write_json
    \/ write_results

InitClassify ==
    /\ FdpNotRun
    /\ config_script = NotRun
    /\ \E coll \in Collections :
         classify_cmd = [coll |-> coll, amplicons |-> {}, results |-> FALSE,
                         written |-> <<>>, cur |-> [genome |-> 1, group |-> 0],
                         pc |-> "load_config_json", status |-> NoAttr]

SpecClassify == InitClassify /\ [][NextClassify]_vars

-----------------------------------------------------------------------------
\* Properties.

\* The primer passes each of the filters that is active.
PassesFilters(primer, cds, gc, oligo, blast, single) ==
    /\ cds => primer.cds_overlap
    /\ gc => primer.gc3primevalid
    /\ oligo => primer.oligovalid
    /\ blast => primer.blastpass
    /\ single => primer.negative_control_amplimers = 1

\* The primers of the table P that pass the filters a query applies when
\* it is called with the arguments (cds, oligo, blast): its three arguments,
\* and the options filtergc3prime and single_product it reads itself.
PassingQuery(P, cds, oligo, blast) ==
    {p \in DOMAIN P :
        PassesFilters(P[p], cds, options.filtergc3prime, oligo, blast,
                      options.single_product)}

\* The primers of object i that pass the filters the queries of
\* write_report apply.
PassingReport(i) ==
    PassingQuery(primers[i], ReportCdsOverlap, ReportBlastFilter, FALSE)

\* The primer tables the queries are examined on: that of object i and,
\* when the single-product filter is on, every table that differs from it
\* in the primers' negative_control_amplimers only (any count, or none, for
\* each primer).
WithAnyCounts(i) ==
    IF options.single_product
    THEN {[p \in DOMAIN primers[i] |->
              [primers[i][p] EXCEPT !.negative_control_amplimers = a[p]]] :
            a \in [DOMAIN primers[i] -> {NoAttr} \cup (0..MaxProducts)]}
    ELSE {primers[i]}

\* The primers of object i that pass the filters the options switch on.
PassingConfigured(i) ==
    {p \in DOMAIN primers[i] :
        PassesFilters(primers[i][p], ~options.nocds, options.filtergc3prime,
                      options.hybridprobe, options.blastdb \/ options.useblast,
                      options.single_product)}

Amplifies(i, p) == primers[i][p].amplifies_organism

\* The names of the samples other than object i.
OtherNames(i) == GdNames \ {gdlist[i].name}

\* The three samples of the scenario: A and B of family F1, C of family F2.
ScenarioGdlist ==
    <<Gd(NameA, <<"F1">>), Gd(NameB, <<"F1">>), Gd(NameC, <<"F2">>)>>

\* C1: for every sample, every combination of filter arguments and every
\* negative-control count of its primers, get_unique_primers, when it
\* returns, returns exactly the primers of the sample that amplify no other
\* sample and pass every active filter; a primer that fails only filters
\* that are not active is returned.
C1_UniquePrimers ==
    \A i \in 1..N : \A P \in WithAnyCounts(i) : \A cds, oligo, blast \in BOOLEAN :
        LET r == get_unique_primers(P, cds, oligo, blast)
        IN  ~r.raised =>
                r.primers = {p \in PassingQuery(P, cds, oligo, blast) :
                                P[p].amplifies_organism = {}}

\* C1 witness: write_report has returned, as unique, a primer that fails
\* the oligo filter while that filter was not applied, and the same query
\* with the oligo filter active leaves it out.
C1_Witness ==
    /\ pc = "done"
    /\ \E i \in 1..N : \E p \in report.unique[i] :
         /\ ~primers[i][p].oligovalid
         /\ p \notin get_unique_primers(primers[i], ReportCdsOverlap, TRUE, FALSE).primers

\* C2: for every sample S, every family F of S, every combination of filter
\* arguments and every negative-control count of the primers,
\* get_family_unique_primers, when it returns, returns exactly the primers
\* of S whose amplifies_organism is the set of the members of F other than
\* S and which pass every active filter. With
\* A and B in F1 and C in F2, a primer of A that amplifies only B is in the
\* F1 family-unique set of A when it passes the filters, and in neither
\* unique(A) nor universal(A).
C2_FamilyUniquePrimers ==
    /\ \A i \in 1..N : \A f \in FamiliesOf(i) : \A P \in WithAnyCounts(i) :
         \A cds, oligo, blast \in BOOLEAN :
             LET r == get_family_unique_primers(P, gdlist[i].name,
                                                FamilyMembers(f), cds, oligo, blast)
             IN  ~r.raised =>
                     r.primers = {p \in PassingQuery(P, cds, oligo, blast) :
                                     P[p].amplifies_organism =
                                         FamilyMembers(f) \ {gdlist[i].name}}
    /\ (pc = "done" /\ gdlist = ScenarioGdlist) =>
          \A p \in DOMAIN primers[1] :
              Amplifies(1, p) = {NameB} =>
                  /\ p \in report.family_unique[1]["F1"] <=> p \in PassingReport(1)
                  /\ p \notin report.unique[1]
                  /\ p \notin report.universal[1]

C4_FiltersFollowToggles ==
    pc = "done" =>
        \A i \in 1..N :
            /\ report.unique[i] =
                   {p \in PassingConfigured(i) : Amplifies(i, p) = {}}
            /\ report.universal[i] =
                   {p \in PassingConfigured(i) : Cardinality(Amplifies(i, p)) = N - 1}
            /\ \A f \in FamiliesOf(i) :
                   report.family_unique[i][f] =
                       {p \in PassingConfigured(i) :
                           Amplifies(i, p) = FamilyMembers(f) \ {gdlist[i].name}}

\* C5: for every sample S, every family F whose only member is S, every
\* combination of filter arguments and every negative-control count of the
\* primers, get_family_unique_primers over the members of F returns what
\* get_unique_primers returns; write_report's
\* family-unique set of S for F is its unique set.
C5_SingleMemberFamily ==
    /\ \A i \in 1..N : \A f \in FamiliesOf(i) :
         FamilyMembers(f) = {gdlist[i].name} =>
             \A P \in WithAnyCounts(i) : \A cds, oligo, blast \in BOOLEAN :
                 LET fu == get_family_unique_primers(P, gdlist[i].name,
                               FamilyMembers(f), cds, oligo, blast)
                     u == get_unique_primers(P, cds, oligo, blast)
                 IN  fu.raised = u.raised /\ fu.primers = u.primers
    /\ pc = "done" =>
          \A i \in 1..N : \A f \in FamiliesOf(i) :
              FamilyMembers(f) = {gdlist[i].name} =>
                  report.family_unique[i][f] = report.unique[i]

\* C6 as stated: when the collection has fewer than two samples, the
\* universal set write_report computes for each sample is empty.
C6_UniversalEmptyBelowTwo ==
    (pc = "done" /\ N < 2) => \A i \in 1..N : report.universal[i] = {}

\* C6, amended: when the collection has exactly one sample, the universal
\* set write_report computes for it is the set of its primers with empty
\* amplifies_organism that pass the filters applied, which is its unique
\* set.
C6_UniversalOfSingleSample ==
    (pc = "done" /\ N = 1) =>
        /\ report.universal[1] = {p \in PassingReport(1) : Amplifies(1, p) = {}}
        /\ report.universal[1] = report.unique[1]

\* C6 witness: one sample, and its universal set is not empty.
C6_Witness ==
    pc = "done" /\ N = 1 /\ report.universal[1] /= {}

\* C7 as stated: a primer of S whose amplifies_organism is the set of all
\* other sample names is in universal(S) and in no unique set.
C7_AllOthersIsUniversal ==
    pc = "done" =>
        \A i \in 1..N : \A p \in DOMAIN primers[i] :
            Amplifies(i, p) = OtherNames(i) =>
                /\ p \in report.universal[i]
                /\ \A j \in 1..N : p \notin report.unique[j]

\* C7, amended: a primer of S whose amplifies_organism is the set of all
\* other sample names is in universal(S) exactly when it passes every
\* filter the classification applies, and, when the collection has at
\* least two samples, it is in no unique set.
C7_AllOthersPassingIsUniversal ==
    pc = "done" =>
        \A i \in 1..N : \A p \in DOMAIN primers[i] :
            Amplifies(i, p) = OtherNames(i) =>
                /\ p \in report.universal[i] <=> p \in PassingReport(i)
                /\ N >= 2 => \A j \in 1..N : p \notin report.unique[j]

\* C7 witness: two samples or more, and a primer that amplifies every
\* other sample is in the universal set of its sample.
C7_Witness ==
    /\ pc = "done"
    /\ N >= 2
    /\ \E i \in 1..N : \E p \in report.universal[i] :
         Amplifies(i, p) = OtherNames(i)

\* C8: when single_product is active the run does not abort on the
\* negative-control count, and the three sets of every sample keep only
\* primers whose negative_control_amplimers is exactly 1.
C8_SingleProductFilter ==
    options.single_product =>
        /\ ~(pc = "aborted" /\ err = "TypeError: find_negative_target_products")
        /\ ~(pc = "aborted" /\ err = "AttributeError: negative_control_amplimers")
        /\ pc = "done" =>
              \A i \in 1..N :
                  \A p \in report.unique[i] \cup report.universal[i]
                           \cup UNION {report.family_unique[i][f] : f \in FamiliesOf(i)} :
                      primers[i][p].negative_control_amplimers = 1

\* C9: every primer's amplifies_organism holds only names of samples of
\* the collection and its amplifies_family only families of those samples,
\* whatever result files classify_primers has processed.
C9_OnlyKnownTargets ==
    \A i \in 1..N : \A p \in DOMAIN primers[i] :
        /\ primers[i][p].amplifies_organism \subseteq GdNames
        /\ primers[i][p].amplifies_family \subseteq
               UNION {FamiliesOf(j) : j \in 1..N}

\* The result file classify_primers processed last.
CurStem == primersearch_output[cur.gd][cur.file]

Classifying == pc \in {"classify", "report", "done"} /\ cur.file >= 1

\* C9 witness: classify_primers has just processed a result file whose
\* target is no member of the collection, for a sample that has a primer
\* recorded as amplifying a known sample.
C9_Witness ==
    /\ Classifying
    /\ ~KnownTarget(TargetName(CurStem))
    /\ ~IsNegativeControl(CurStem)
    /\ \E p \in DOMAIN primers[cur.gd] : Amplifies(cur.gd, p) /= {}

\* C10: when classify_primers processes a result with a known target, the
\* query primers the result reports with at least one product get the
\* target's name added to amplifies_organism and the target's families
\* added to amplifies_family (when the step completes), and every other
\* primer, reported with zero products or not reported, is left unchanged.
C10_AmplifyingPrimersOnly ==
    [][pc = "classify" =>
         LET i == cur'.gd
             targetname == TargetName(primersearch_output[i][cur'.file])
         IN  KnownTarget(targetname) =>
                 /\ \A j \in (1..N) \ {i} : primers'[j] = primers[j]
                 /\ DOMAIN primers'[i] = DOMAIN primers[i]
                 /\ \A p \in DOMAIN primers[i] :
                        IF p \in DOMAIN psdata' /\ psdata'[p] > 0
                        THEN pc' /= "aborted" =>
                                 primers'[i][p] =
                                     [primers[i][p] EXCEPT
                                        !.amplifies_organism = @ \cup {targetname},
                                        !.amplifies_family = @ \cup
                                            UNION {FamiliesOf(k) :
                                                k \in {m \in 1..N : gdlist[m].name = targetname}}]
                        ELSE primers'[i][p] = primers[i][p]]_vars

\* C10 witness: classify_primers has just processed a result with a known
\* target that reports zero products for a primer; the target is not in
\* the primer's amplifies_organism, which holds the target of an earlier
\* result that reported a product.
C10_Witness ==
    /\ Classifying
    /\ KnownTarget(TargetName(CurStem))
    /\ \E p \in DOMAIN primers[cur.gd] :
         /\ p \in DOMAIN psdata
         /\ psdata[p] = 0
         /\ TargetName(CurStem) \notin Amplifies(cur.gd, p)
         /\ Amplifies(cur.gd, p) /= {}

\* C11: when classify_primers processes a negative-control result of a
\* sample, every primer the result reports gets its number of products as
\* negative_control_amplimers (when the step completes), every other
\* attribute of every primer is left as it was, amplifies_organism and
\* amplifies_family among them, and the primers the result does not report
\* are unchanged.
C11_NegativeControlCounts ==
    [][pc = "classify" =>
         LET i == cur'.gd
             stem == primersearch_output[i][cur'.file]
         IN  (~KnownTarget(TargetName(stem)) /\ IsNegativeControl(stem)) =>
                 /\ \A j \in (1..N) \ {i} : primers'[j] = primers[j]
                 /\ DOMAIN primers'[i] = DOMAIN primers[i]
                 /\ \A p \in DOMAIN primers[i] :
                        /\ primers'[i][p].amplifies_organism =
                               primers[i][p].amplifies_organism
                        /\ primers'[i][p].amplifies_family =
                               primers[i][p].amplifies_family
                        /\ IF p \in DOMAIN psdata' /\ pc' /= "aborted"
                           THEN primers'[i][p] =
                                    [primers[i][p] EXCEPT
                                       !.negative_control_amplimers = psdata'[p]]
                           ELSE primers'[i][p] = primers[i][p]]_vars

\* C11 witness: classify_primers has just processed a negative-control
\* result that reports two products for a primer which amplifies another
\* sample; the primer's count is 2.
C11_Witness ==
    /\ Classifying
    /\ IsNegativeControl(CurStem)
    /\ \E p \in DOMAIN primers[cur.gd] :
         /\ p \in DOMAIN psdata
         /\ psdata[p] = 2
         /\ primers[cur.gd][p].negative_control_amplimers = 2
         /\ Amplifies(cur.gd, p) /= {}

\* The files classify_primers goes through in this run.
AllFiles == FilesFrom(primersearch_output, 1, 0)

\* classify_primers is about to start.
PassStarts == pc = "classify" /\ cur.file = 0

\* C12: whatever data the result files hold, running classify_primers a
\* second time on the same files with the same data leaves every primer's
\* amplifies_organism, amplifies_family and negative_control_amplimers
\* (the whole primer table) as the first run left them; and each step of
\* the run is the step of that function on one file.
C12_SecondRunChangesNothing ==
    /\ [](PassStarts =>
            \A datas \in DataChoices(primersearch_output, AllFiles) :
                LET first == ClassifyPass(primers, primersearch_output,
                                          AllFiles, datas)
                    second == ClassifyPass(first.primers, primersearch_output,
                                           AllFiles, datas)
                IN  ~first.raised =>
                        ~second.raised /\ second.primers = first.primers)
    /\ [][(pc = "classify" /\ pc' /= "aborted") =>
            LET i == cur'.gd
            IN  primers' = [primers EXCEPT ![i] =
                    ClassifyFile(primers[i], primersearch_output[i][cur'.file],
                                 psdata').primers]]_vars

\* C12 witness: classify_primers has gone through a pairwise result and a
\* negative-control result; a primer amplifies another sample and has a
\* negative-control count, and a second run on data that reports products
\* for it leaves the table as it is.
C12_Witness ==
    /\ pc = "report"
    /\ Len(AllFiles) >= 2
    /\ \E p \in DOMAIN primers[1] :
         /\ Amplifies(1, p) /= {}
         /\ primers[1][p].negative_control_amplimers = 2
    /\ \E datas \in DataChoices(primersearch_output, AllFiles) :
         /\ \A k \in 1..Len(datas) : \E p \in DOMAIN datas[k] : datas[k][p] = 2
         /\ ClassifyPass(primers, primersearch_output, AllFiles, datas) =
                [primers |-> primers, raised |-> FALSE]

\* C13: in every state, whether the results come from PrimerSearch runs or
\* from the files of earlier runs, no primer's amplifies_organism holds the
\* name of the sample the primer belongs to.
C13_NeverAmplifiesOwnSample ==
    \A i \in 1..N : \A p \in DOMAIN primers[i] :
        gdlist[i].name \notin Amplifies(i, p)

\* C14: for the primers of every sample, in every state, each filter
\* applied a second time with the same inputs (the same regions of the
\* cluster tree, the same BLAST records) leaves every primer as the first
\* application left it: filter_primers, filter_primers_gc_3prime,
\* filter_primers_oligo (when it does not raise) and parse_blast.
C14_FiltersAppliedTwice ==
    \A i \in 1..N :
        LET P == primers[i]
        IN  /\ \A regions \in RegionSets(DOMAIN P) :
                 filter_primers(filter_primers(P, regions), regions) =
                     filter_primers(P, regions)
            /\ filter_primers_gc_3prime(filter_primers_gc_3prime(P)) =
                   filter_primers_gc_3prime(P)
            /\ (\A p \in DOMAIN P : ~OligoRaises(P[p])) =>
                   filter_primers_oligo(filter_primers_oligo(P)) =
                       filter_primers_oligo(P)
            /\ pc = "blast_screen" =>
                   \A records \in [BlastQueries(P) -> BlastRecordPool] :
                       LET matching_primers == process_blastxml(records)
                       IN  parse_blast(parse_blast(P, matching_primers),
                                       matching_primers) =
                               parse_blast(P, matching_primers)
            /\ \A matching_primers \in SUBSET DOMAIN P :
                   parse_blast(parse_blast(P, matching_primers), matching_primers) =
                       parse_blast(P, matching_primers)

\* C14 witness: the filters have run on a sample; one of its primers is in
\* a CDS region, fails the GC test and the BLAST screen, and the filters
\* applied again on what marked it leave it so.
C14_Witness ==
    /\ pc = "primersearch"
    /\ options.filtergc3prime /\ options.hybridprobe
    /\ \E p \in DOMAIN primers[1] :
         /\ primers[1][p].cds_overlap
         /\ ~primers[1][p].gc3primevalid
         /\ ~primers[1][p].blastpass
         /\ filter_primers_gc_3prime(primers[1]) = primers[1]
         /\ filter_primers_oligo(primers[1]) = primers[1]
         /\ parse_blast(primers[1], {p}) = primers[1]
         /\ filter_primers(primers[1], {[cds |-> TRUE, primers |-> {p}]}) = primers[1]

\* The primers of object i are loaded and filtered.
Loaded(i) == pc /= "load_primers" \/ i < cur.gd

\* More than two of the last five bases of seq are G or C.
GcRichEnd(seq) == CountBase(Last5(seq), "G") + CountBase(Last5(seq), "C") > 2

\* C15: after filter_primers_gc_3prime, gc3primevalid of a primer is false
\* exactly when the last five bases of its forward primer hold more than
\* two G or C, or the last five bases of its reverse primer do: each end is
\* judged on its own bases.
C15_Gc3PrimeByEnd ==
    \A i \in 1..N :
        (options.filtergc3prime /\ Loaded(i)) =>
            \A p \in DOMAIN primers[i] :
                ~primers[i][p].gc3primevalid <=>
                    \/ GcRichEnd(primers[i][p].forward_seq)
                    \/ GcRichEnd(primers[i][p].reverse_seq)

\* filter_primers_oligo has run on the primers of object i to its end.
OligoFiltered(i) ==
    /\ options.hybridprobe
    /\ Loaded(i)
    /\ \A p \in DOMAIN primers[i] : ~OligoRaises(primers[i][p])

C20_NoOligoSkipped ==
    /\ err /= "AttributeError: oligo"
    /\ \A i \in 1..N :
         (options.hybridprobe /\ Loaded(i)) =>
             \A p \in DOMAIN primers[i] :
                 primers[i][p].oligovalid <=>
                     \/ Len(primers[i][p].oligo) = 0
                     \/ ~OligoFails(primers[i][p])

\* The BLAST record has a first alignment whose identities are at least
\* 90% of the query length.
BlastHit(record) ==
    /\ record.alignments > 0
    /\ 10 * record.identities >= 9 * record.query_letters

C19_NoFamilyIsConfigurationError ==
    /\ err /= "TypeError: families"
    /\ (\E i \in 1..N : gdlist[i].families = NoFamilies) => ~report.written

\* C18: once an external job run by multiprocessing_run has ended with a
\* non-zero status, no step of classify_primers or of write_report is
\* taken.
C18_FailedJobAborts ==
    [][1 \in completed => pc \notin {"classify", "report"}]_vars

\* C21: in a written report the universal export holds the universal
\* primers of every sample of the collection, and the export of each
\* family holds exactly the family-unique primers of its members.
C21_ExportsHoldEveryPrimer ==
    report.written =>
        /\ report.universal_file = UNION {report.universal[i] : i \in 1..N}
        /\ \A f \in DOMAIN report.family_specific_primers :
             report.family_specific_primers[f] =
                 UNION {report.family_unique[i][f] :
                           i \in {j \in 1..N : f \in FamiliesOf(j)}}

\* PrimerSearch has been run by this run of the script.
Searched ==
    /\ ~options.noprimersearch
    /\ \E i \in 1..N : primersearch_output[i] /= <<>>

\* C22: the PrimerSearch input file of a sample holds every primer of the
\* sample when --nocds is given, and only the primers with cds_overlap
\* true when it is not.
C22_PrimerSearchInput ==
    Searched =>
        \A i \in 1..N :
            write_primers(primers[i]) =
                {p \in DOMAIN primers[i] : options.nocds \/ primers[i][p].cds_overlap}

GenomeGroups ==
    LET coll == classify_cmd.coll
    IN  UNION {{<<coll[i].name, coll[i].groups[k]>> : k \in 1..Len(coll[i].groups)} :
                  i \in 1..Len(coll)}

\* The places of a file among the files written by subcmd_classify.
WrittenAt(file) ==
    {k \in 1..Len(classify_cmd.written) : classify_cmd.written[k] = file}

\* C24: when a genome of the collection has no link to primersearch data,
\* subcmd_classify ends with SystemExit(1) and no amplicon set has been
\* loaded, no classification run and no file written. Otherwise it never
\* ends so, and when it returns (0) it has written one .bed and one .json
\* file for each (genome, group) pair, then results.json, then summary.tab,
\* and no other file.
C24_ClassifyCommand ==
    LET c == classify_cmd
        n == Len(c.written)
    IN  c.pc /= "not run" =>
            IF \E k \in 1..Len(c.coll) : ~c.coll[k].primersearch
            THEN /\ c.pc \in {"load_config_json", "exited"}
                 /\ c.pc = "exited" => c.status = 1
                 /\ c.amplicons = {} /\ ~c.results /\ c.written = <<>>
            ELSE /\ c.pc /= "exited"
                 /\ c.pc = "done" =>
                      /\ c.status = 0
                      /\ n = 2 * Cardinality(GenomeGroups) + 2
                      /\ c.written[n - 1] = ResultsFile
                      /\ c.written[n] = SummaryFile
                      /\ \A pair \in GenomeGroups :
                           /\ Cardinality(WrittenAt(AmpliconFile(pair[1], pair[2], "bed"))) = 1
                           /\ Cardinality(WrittenAt(AmpliconFile(pair[1], pair[2], "json"))) = 1

\* C24 witness: the command has returned over two genomes, one of them in
\* two groups, with their files written.
C24_Witness ==
    /\ classify_cmd.pc = "done"
    /\ Len(classify_cmd.coll) = 2
    /\ Cardinality(GenomeGroups) >= 3
    /\ classify_cmd.amplicons = {"G1", "G2"}

\* C25: whatever regions the cluster tree reports for the primers of a
\* sample, filter_primers gives cds_overlap true only to primers of a
\* region that holds a CDS; the primers of a region of primers only keep
\* cds_overlap false.
C25_CdsRegionsOnly ==
    \A i \in 1..N :
        (Loaded(i) /\ ~options.nocds) =>
            LET P == LoadedPrimers(i)
            IN  \A regions \in RegionSets(DOMAIN P) :
                    \A p \in DOMAIN P :
                        filter_primers(P, regions)[p].cds_overlap =>
                            \E r \in regions : r.cds /\ p \in r.primers

\* C26: in every state, amplifies_family of every primer is the union of
\* the families of the samples named in its amplifies_organism.
C26_FamiliesOfAmplified ==
    \A i \in 1..N :
        \A p \in DOMAIN primers[i] :
            primers[i][p].amplifies_family =
                UNION {FamiliesOf(j) :
                          j \in {k \in 1..N : gdlist[k].name \in Amplifies(i, p)}}

\* C26 witness: classify_primers has recorded, for a primer, a sample of
\* two families.
C26_Witness ==
    \E i \in 1..N :
        \E p \in DOMAIN primers[i] :
            /\ Amplifies(i, p) /= {}
            /\ Cardinality(primers[i][p].amplifies_family) = 2

\* The filters in the order claimed for the logs of a query.
LogOrder == <<"CDS", "GC3", "oligo", "BLAST", "single_product">>

\* The log of a query that returned: the count of the primers with the
\* asked amplification first, then one count for each active filter in
\* the order of LogOrder, then the count returned; no count is larger
\* than the one before it, and the last is the size of the returned set.
LogAsClaimed(r, cds, oligo, blast) ==
    LET active == [k \in 1..5 |->
                      <<cds, options.filtergc3prime, oligo, blast,
                        options.single_product>>[k]]
        n == Len(r.log)
    IN  /\ Len(r.steps) = n
        /\ r.steps[1] = "amplify"
        /\ r.steps[n] = "returning"
        /\ n - 2 = Cardinality({k \in 1..5 : active[k]})
        /\ \A a \in 2..n - 1 :
             \E k \in 1..5 :
                 /\ active[k] /\ r.steps[a] = LogOrder[k]
                 /\ Cardinality({j \in 1..k : active[j]}) = a - 1
        /\ \A a \in 1..n - 1 : r.log[a + 1] <= r.log[a]
        /\ r.log[n] = Cardinality(r.primers)

\* C27: for every sample, every table of its primers, every combination
\* of filter arguments, every count and every family of the sample, the
\* log of get_primers_amplify_count and of get_family_unique_primers, when
\* the query returns, has the counts of the active filters in the order
\* CDS, GC 3', oligo, BLAST, single-product after the count of the base
\* test, never increases, and ends with the size of the returned list.
C27_LogOrder ==
    \A i \in 1..N : \A P \in WithAnyCounts(i) : \A cds, oligo, blast \in BOOLEAN :
        /\ \A count \in 0..N :
             LET r == get_primers_amplify_count(P, count, cds, oligo, blast)
             IN  ~r.raised => LogAsClaimed(r, cds, oligo, blast)
        /\ \A f \in FamiliesOf(i) :
             LET r == get_family_unique_primers(P, gdlist[i].name, FamilyMembers(f),
                                                cds, oligo, blast)
             IN  ~r.raised => LogAsClaimed(r, cds, oligo, blast)

\* C27 witness: write_report has asked for the unique primers of a sample
\* and the log of the query has four counts, the last smaller than the
\* first.
C27_Witness ==
    /\ pc = "done"
    /\ \E i \in 1..N :
         LET r == report_unique(i)
         IN  /\ Len(r.log) >= 4
             /\ r.log[Len(r.log)] < r.log[1]

\* The positions at which the script waits in pool.join().
Joining == {"run_blast_join", "parse_blast_join", "primersearch_join"}

\* C28: a job handed to a pool is still with its workers only while the
\* script waits in the pool.join() of the step that launched it: when
\* multiprocessing_run or the pool of parse_blast has returned, and so at
\* every step of parse_blast's loop, of classify_primers and of
\* write_report, no job is left. No step taken while a job is running
\* changes a primer, and a step that changes blastpass is taken by the
\* script itself, after the join of parse_blast.
C28_JobsJoinedBeforeClassification ==
    /\ [](pc \notin Joining => pool = {})
    /\ [](pc \in {"blast_screen", "classify", "report", "done"} => pool = {})
    /\ [][pool /= {} => primers' = primers /\ report' = report]_vars
    /\ [][(\E i \in 1..N : \E p \in DOMAIN primers[i] :
               p \in DOMAIN primers'[i] /\
               primers'[i][p].blastpass /= primers[i][p].blastpass) =>
            pc = "blast_screen" /\ pool = {}]_vars

\* C28 witness: classify_primers runs after BLASTN and PrimerSearch jobs
\* have ended, one of them with a non-zero status or a primer having failed
\* the BLAST screen.
C28_Witness ==
    /\ pc = "classify"
    /\ options.blastdb /\ ~options.useblast /\ ~options.noprimersearch
    /\ 0 \in completed
    /\ \E i \in 1..N : \E p \in DOMAIN primers[i] : ~primers[i][p].blastpass

\* C29: the single-product step that follows the PrimerSearch step leaves
\* every pairwise result file registered for every sample, and the run goes
\* on to classify_primers, which processes them as it does when the option
\* is inactive.
C29_PairwiseFilesProcessed ==
    [][pc = "single_product" =>
          /\ primersearch_output' = primersearch_output
          /\ pc' = IF NextFile(primersearch_output, 1, 0).gd <= N
                   THEN "classify" ELSE "report"]_vars

\* C30: every result file registered for a sample was written by a
\* PrimerSearch run whose query is that sample, also when the name of one
\* sample starts the name of another, and no step of classify_primers ends
\* on a primer name of another sample.
C30_OwnResultsOnly ==
    /\ \A i \in 1..N : \A k \in DOMAIN primersearch_output[i] :
          Producer(primersearch_output[i][k]) = gdlist[i].name
    /\ err /= "KeyError: primers"
====
